---- MODULE Spec2Model ----
(***************************************************************************)
(* Model of the LAPUP solar library: lapup_solar_library.py (the function  *)
(* library) and lapup_solar_library_class.py (the SolarGeometry class).    *)
(*                                                                         *)
(* Real numbers are decimal fixed-point integers with Scale units per 1.0  *)
(* (six decimals, the precision of the coefficients in the source), every  *)
(* arithmetic operation rounding to the nearest unit as float64 rounds to  *)
(* the nearest representable value.  A pandas Timestamp is its value, here *)
(* whole seconds since 1970-01-01 00:00:00, and its calendar fields are    *)
(* computed from that value.                                               *)
(***************************************************************************)
EXTENDS Integers, Sequences, FiniteSets

VARIABLES datetime_object, latitude, longitude, fn, ret, event

vars == <<datetime_object, latitude, longitude, fn, ret, event>>

-----------------------------------------------------------------------------
(* Fixed-point arithmetic *)

Scale == 1000000

\* np.pi
Pi == 3141593

\* np.nan: the result of an invalid floating-point operation
NaN == -2000000000

\* np.inf (the sign is kept separately where it matters)
Inf == 2000000000

\* The arithmetic and the elementary functions are TLA+ functions, not
\* operators: a function is applied to the value of its argument.

\* a / b rounded to the nearest integer, b > 0
RDiv[a \in Int, b \in Int] == (2 * a + b) \div (2 * b)

Abs(a) == IF a < 0 THEN -a ELSE a

\* the product of two fixed-point numbers, rounded to the nearest unit; the
\* factors are split in thousands so that no partial product leaves 32 bits
MulS[a \in Int, b \in Int] ==
  LET a1 == a \div 1000
      a0 == a % 1000
      b1 == b \div 1000
      b0 == b % 1000
      mid == a1 * b0 + a0 * b1
      m1 == mid \div 1000
      m0 == mid % 1000
  IN  a1 * b1 + m1 + RDiv[m0 * 1000 + a0 * b0, Scale]

\* the quotient of two fixed-point numbers, b > 0 and |a| <= 2 * Scale,
\* rounded to the nearest unit (long division in two steps of three digits)
DivS[a \in Int, b \in Int] ==
  LET p1 == a * 1000
      q1 == p1 \div b
      r1 == p1 % b
  IN  q1 * 1000 + RDiv[r1 * 1000, b]

\* float64 division a / b as numpy performs it: a zero divisor gives an
\* infinity (nan for 0 / 0) instead of raising ZeroDivisionError, and nan
\* propagates.  A quotient beyond +-2000 cannot be held in 32 bits and is
\* given as the infinity of its sign; its only use is as arccos's argument.
divide[a \in Int, b \in Int] ==
  IF a = NaN \/ b = NaN THEN NaN
  ELSE IF b = 0 THEN (IF a = 0 THEN NaN ELSE IF a > 0 THEN Inf ELSE -Inf)
  ELSE IF Abs(a) >= 2000 * Abs(b) THEN (IF (a > 0) = (b > 0) THEN Inf ELSE -Inf)
  ELSE IF b > 0 THEN DivS[a, b] ELSE DivS[-a, -b]

\* the numpy RuntimeWarnings the division a / b raises
divide_warnings[a \in Int, b \in Int] ==
  IF a = NaN \/ b = NaN \/ b # 0 THEN {}
  ELSE IF a = 0 THEN {"invalid value encountered in scalar divide"}
  ELSE {"divide by zero encountered in scalar divide"}

-----------------------------------------------------------------------------
(* numpy's elementary functions *)

\* the sum of the alternating power series whose current term is term, whose
\* next term is -term * x2 / (n * (n + 1))
Series[term \in Int, x2 \in Int, n \in Int] ==
  IF term = 0 THEN 0
  ELSE term + Series[-RDiv[MulS[term, x2], n * (n + 1)], x2, n + 2]

\* x reduced to [-Pi, Pi)
Reduce[x \in Int] == ((x + Pi) % (2 * Pi)) - Pi

\* the sine of an angle in [-Pi, Pi)
SinReduced[r \in Int] ==
  LET f == IF 2 * r > Pi THEN Pi - r
           ELSE IF 2 * r < -Pi THEN -Pi - r
           ELSE r
  IN  Series[f, MulS[f, f], 2]

\* the cosine of an angle in [0, Pi]
CosReduced[r \in Int] ==
  IF 2 * r > Pi THEN -Series[Scale, MulS[Pi - r, Pi - r], 1]
  ELSE Series[Scale, MulS[r, r], 1]

\* np.sin
sin[x \in Int] == IF x = NaN THEN NaN ELSE SinReduced[Reduce[x]]

\* np.cos
cos[x \in Int] == IF x = NaN THEN NaN ELSE CosReduced[Abs(Reduce[x])]

\* the least angle t in lo..hi with cos(t) <= c, given cos(hi) <= c
Bisect[c \in Int, lo \in Int, hi \in Int] ==
  IF lo >= hi THEN hi
  ELSE IF cos[(lo + hi) \div 2] <= c THEN Bisect[c, lo, (lo + hi) \div 2]
  ELSE Bisect[c, (lo + hi) \div 2 + 1, hi]

\* np.arccos: NaN outside [-1, 1], else the angle in [0, Pi]
arccos[c \in Int] ==
  IF c = NaN \/ c > Scale \/ c < -Scale THEN NaN
  ELSE IF c >= 0 THEN Bisect[c, 0, RDiv[Pi, 2] + 1]
  ELSE Pi - Bisect[-c, 0, RDiv[Pi, 2] + 1]

\* the numpy RuntimeWarnings arccos(c) raises
arccos_warnings[c \in Int] ==
  IF c # NaN /\ (c > Scale \/ c < -Scale)
  THEN {"invalid value encountered in arccos"} ELSE {}

\* np.radians
radians[deg \in Int] == RDiv[MulS[deg, Pi], 180]

-----------------------------------------------------------------------------
(* pandas.Timestamp and pandas.Timedelta *)

\* the day number (days since 1970-01-01) of a calendar date
DaysFromCivil(y, m, d) ==
  LET yy == IF m <= 2 THEN y - 1 ELSE y
      era == yy \div 400
      yoe == yy - era * 400
      mp == IF m > 2 THEN m - 3 ELSE m + 9
      doy == (153 * mp + 2) \div 5 + d - 1
      doe == yoe * 365 + yoe \div 4 - yoe \div 100 + doy
  IN  era * 146097 + doe - 719468

\* the calendar date of a day number
CivilFromDays(days) ==
  LET z == days + 719468
      era == z \div 146097
      doe == z - era * 146097
      yoe == (doe - doe \div 1460 + doe \div 36524 - doe \div 146096) \div 365
      doy == doe - (365 * yoe + yoe \div 4 - yoe \div 100)
      mp == (5 * doy + 2) \div 153
      d == doy - (153 * mp + 2) \div 5 + 1
      m == IF mp < 10 THEN mp + 3 ELSE mp - 9
  IN  [year |-> yoe + era * 400 + (IF m <= 2 THEN 1 ELSE 0), month |-> m, day |-> d]

\* pd.Timestamp(year, month, day, hour, minute, second): its value
Timestamp(y, m, d, h, mi, s) ==
  DaysFromCivil(y, m, d) * 86400 + h * 3600 + mi * 60 + s

\* the fields of a Timestamp
date(t) == CivilFromDays(t \div 86400)
year(t) == date(t).year
dayofyear(t) == t \div 86400 - DaysFromCivil(year(t), 1, 1) + 1
hour(t) == (t % 86400) \div 3600
minute(t) == (t % 3600) \div 60
second(t) == t % 60

\* pd.Timedelta(minutes=m): a real number of minutes as a duration, rounded
\* to the resolution of the Timestamp value
Timedelta(m) == (m \div Scale) * 60 + RDiv[(m % Scale) * 60, Scale]

-----------------------------------------------------------------------------
(* lapup_solar_library.py *)

\* round(longitude / 15): Python rounds a tie to the even integer
round15(lon) ==
  LET q == lon \div (15 * Scale)
      r == lon % (15 * Scale)
  IN  IF 2 * r < 15 * Scale THEN q
      ELSE IF 2 * r > 15 * Scale THEN q + 1
      ELSE IF q % 2 = 0 THEN q ELSE q + 1

\* 2 * np.pi * n / 8760 for a whole number n of hours, rounded once
TwoPiHours(n) ==
  LET a1 == (2 * Pi) \div 1000
      a0 == (2 * Pi) % 1000
      P == a1 * n
  IN  (P \div 8760) * 1000 + RDiv[(P % 8760) * 1000 + a0 * n, 8760]

\* fractional_year with the hour counted back from 12 (12 - hour)
fractional_year_mut(dt) ==
  TwoPiHours(24 * (dayofyear(dt) - 1) + (12 - hour(dt)))

\* fractional_year with the day of the year counted from 1, not from 0
fractional_year_nosub(dt) ==
  TwoPiHours(24 * dayofyear(dt) + (hour(dt) - 12))

\* 2 * pi * (dayofyear - 1 + (hour - 12) / 24) / 365
fractional_year(dt) ==
  TwoPiHours(24 * (dayofyear(dt) - 1) + (hour(dt) - 12))

declination(dt) ==
  LET g == fractional_year(dt)
  IN  6918 - MulS[399912, cos[g]] + MulS[70257, sin[g]]
           - MulS[6758, cos[2 * g]] + MulS[907, sin[2 * g]]
           - MulS[2697, cos[3 * g]] + MulS[1480, sin[3 * g]]

equation_of_time(dt) ==
  LET g == fractional_year(dt)
  IN  MulS[229180000, 75 + MulS[1868, cos[g]] - MulS[32077, sin[g]]
                         - MulS[14615, cos[2 * g]] - MulS[40849, sin[2 * g]]]

\* the local variable timezone of true_solar_time
timezone(lon) == round15(lon) + 1

\* the local variable time_offset of true_solar_time, in minutes
time_offset(dt, lon) ==
  equation_of_time(dt) + 4 * lon - 60 * Scale * timezone(lon)

\* true_solar_time with the longitude correction subtracted
true_solar_time_mut(dt, lon) ==
  dt + Timedelta(equation_of_time(dt) - 4 * lon - 60 * Scale * timezone(lon))

true_solar_time(dt, lon) == dt + Timedelta(time_offset(dt, lon))

\* the local variable tst_decimal of hour_angle, in hours
tst_decimal(tst) ==
  hour(tst) * Scale + RDiv[minute(tst) * Scale + RDiv[second(tst) * Scale, 60], 60]

\* hour_angle with the sign of the displacement from noon slipped
hour_angle_mut(dt, lon) ==
  radians[15 * (12 * Scale - tst_decimal(true_solar_time(dt, lon)))]

hour_angle(dt, lon) ==
  radians[15 * (tst_decimal(true_solar_time(dt, lon)) - 12 * Scale)]

\* the argument sza passes to np.arccos
sza_cos(dt, la, lo) ==
  MulS[sin[radians[la]], sin[declination(dt)]]
    + MulS[MulS[cos[radians[la]], cos[declination(dt)]], cos[hour_angle(dt, lo)]]

\* np.arccos(c) in sza, with the argument and the RuntimeWarnings raised
sza_arccos[c \in Int] ==
  [value |-> arccos[c], cos |-> c, warnings |-> arccos_warnings[c]]

\* sza with its local values
sza_locals(dt, la, lo) == sza_arccos[sza_cos(dt, la, lo)]

sza(dt, la, lo) == sza_locals(dt, la, lo).value

\* the numerator of the quotient saz passes to np.arccos
saz_num(dt, la, lo) ==
  MulS[sin[declination(dt)], cos[radians[la]]]
    - MulS[MulS[cos[hour_angle(dt, lo)], cos[declination(dt)]], sin[radians[la]]]

\* 2 * np.pi - raw in saz, with the local values
saz_value[quot \in Int, raw \in Int, den \in Int, ha \in Int, warned \in SUBSET STRING] ==
  [value |-> IF raw = NaN THEN NaN ELSE 2 * Pi - raw,
   raw |-> raw,
   quot |-> quot,
   den |-> den,
   hour_angle |-> ha,
   warnings |-> warned \cup arccos_warnings[quot]]

\* raw = np.arccos(num / den) in saz
saz_arccos[num \in Int, den \in Int, ha \in Int, warned \in SUBSET STRING] ==
  saz_value[divide[num, den], arccos[divide[num, den]], den, ha,
            warned \cup divide_warnings[num, den]]

\* saz with its local values: num / den is the quotient it passes to
\* np.arccos, raw is that arccos, warnings are the RuntimeWarnings raised
saz_locals(dt, la, lo) ==
  saz_arccos[saz_num(dt, la, lo), sin[sza(dt, la, lo)], hour_angle(dt, lo),
             sza_locals(dt, la, lo).warnings]

saz(dt, la, lo) == saz_locals(dt, la, lo).value

-----------------------------------------------------------------------------
(* lapup_solar_library_class.py *)

\* SolarGeometry.__init__: the object with its attributes
SolarGeometry(dt, la, lo) ==
  LET g == TwoPiHours(24 * (dayofyear(dt) - 1) + (hour(dt) - 12))
  IN  [constructed |-> TRUE,
       datetime_object |-> dt,
       latitude |-> la,
       longitude |-> lo,
       fractional_year |-> g,
       declination |->
         6918 - MulS[399912, cos[g]] + MulS[70257, sin[g]]
              - MulS[6758, cos[2 * g]] + MulS[907, sin[2 * g]]
              - MulS[2697, cos[3 * g]] + MulS[1480, sin[3 * g]],
       equation_of_time |->
         MulS[229180000, 75 + MulS[1868, cos[g]] - MulS[32077, sin[g]]
                            - MulS[14615, cos[2 * g]] - MulS[40849, sin[2 * g]]]]

-----------------------------------------------------------------------------
(* The inputs *)

\* the year of the station's data file, Solar_1min_2019.txt
FirstYear == 2019

\* the years the timestamps are drawn from: FirstYear and the ones after it
NumYears == 2

\* how many hours, days or 30 days the next row of the time series lies
\* ahead, at most
MaxAdvance == 2

\* the station's latitude and longitude in degrees
lat == 38291389
lon == 21788611

\* month and day
Dates == {<<1, 1>>, <<3, 1>>, <<7, 15>>, <<12, 31>>}

\* hour, minute and second
Clocks == {<<0, 10, 0>>, <<6, 38, 38>>, <<12, 0, 0>>, <<13, 47, 0>>, <<23, 59, 59>>}

\* latitude and longitude: the station, a southern site on a time-zone
\* boundary, a latitude beyond the pole, and the two poles
Positions ==
  {<<lat, lon>>, <<-38500000, 22500000>>, <<95000000, -7500000>>,
   <<90000000, -100250000>>, <<-90000000, 7500000>>}

Grid ==
  {[dt |-> Timestamp(y, d[1], d[2], c[1], c[2], c[3]), lat |-> p[1], lon |-> p[2]] :
     y \in FirstYear..(FirstYear + NumYears - 1), d \in Dates, c \in Clocks,
     p \in Positions}

\* true solar noon at the station's longitude on 2019-07-15 (12:38:38 local
\* time), seen from the station, from latitudes next to the subsolar point
\* and from the southern hemisphere; and true solar midnight there
Special ==
  {[dt |-> Timestamp(FirstYear, 7, 15, 12, 38, 38), lat |-> la, lon |-> lon] :
     la \in {lat, 21662306, 21660878, -38500000}}
  \cup {[dt |-> Timestamp(FirstYear, 7, 15, 0, 38, 34), lat |-> lat, lon |-> lon]}

Inputs == Grid \cup Special

-----------------------------------------------------------------------------
(* The calls *)

NoResult == [pending |-> TRUE]

NoEvent == [constructed |-> FALSE]

Init ==
  /\ \E in \in Inputs :
       /\ datetime_object = in.dt
       /\ latitude = in.lat
       /\ longitude = in.lon
  /\ fn = "none"
  /\ ret = NoResult
  /\ event = NoEvent

call_fractional_year ==
  /\ fn = "none"
  /\ fn' = "fractional_year"
  /\ ret' = [value |-> fractional_year(datetime_object)]
  /\ UNCHANGED <<datetime_object, latitude, longitude, event>>

call_declination ==
  /\ fn = "none"
  /\ fn' = "declination"
  /\ ret' = [value |-> declination(datetime_object),
             fractional_year |-> fractional_year(datetime_object)]
  /\ UNCHANGED <<datetime_object, latitude, longitude, event>>

call_equation_of_time ==
  /\ fn = "none"
  /\ fn' = "equation_of_time"
  /\ ret' = [value |-> equation_of_time(datetime_object),
             fractional_year |-> fractional_year(datetime_object)]
  /\ UNCHANGED <<datetime_object, latitude, longitude, event>>

call_true_solar_time ==
  /\ fn = "none"
  /\ fn' = "true_solar_time"
  /\ ret' = [value |-> true_solar_time(datetime_object, longitude),
             time_offset |-> time_offset(datetime_object, longitude)]
  /\ UNCHANGED <<datetime_object, latitude, longitude, event>>

call_hour_angle ==
  /\ fn = "none"
  /\ fn' = "hour_angle"
  /\ ret' = [value |-> hour_angle(datetime_object, longitude),
             tst |-> true_solar_time(datetime_object, longitude)]
  /\ UNCHANGED <<datetime_object, latitude, longitude, event>>

call_sza ==
  /\ fn = "none"
  /\ fn' = "sza"
  /\ ret' = sza_locals(datetime_object, latitude, longitude)
  /\ UNCHANGED <<datetime_object, latitude, longitude, event>>

call_saz ==
  /\ fn = "none"
  /\ fn' = "saz"
  /\ ret' = saz_locals(datetime_object, latitude, longitude)
  /\ UNCHANGED <<datetime_object, latitude, longitude, event>>

\* event = SolarGeometry(datetime_object, latitude, longitude)
new_SolarGeometry ==
  /\ fn = "none"
  /\ ~event.constructed
  /\ event' = SolarGeometry(datetime_object, latitude, longitude)
  /\ UNCHANGED <<datetime_object, latitude, longitude, fn, ret>>

\* the script goes on to a later row of the time series
next_row ==
  /\ fn = "none"
  /\ event.constructed
  /\ event.datetime_object = datetime_object
  /\ \E k \in 1..MaxAdvance, unit \in {3600, 86400, 30 * 86400} :
       datetime_object' = datetime_object + k * unit
  /\ UNCHANGED <<latitude, longitude, fn, ret, event>>

Next ==
  \/ call_fractional_year
  \/ call_declination
  \/ call_equation_of_time
  \/ call_true_solar_time
  \/ call_hour_angle
  \/ call_sza
  \/ call_saz
  \/ new_SolarGeometry
  \/ next_row

Spec == Init /\ [][Next]_vars

-----------------------------------------------------------------------------
(* The calendar, field by field, and exact fractions of pi: what the       *)
(* properties below compare the results with                               *)

IsLeap(y) == y % 4 = 0 /\ (y % 100 # 0 \/ y % 400 = 0)

DaysInMonth(y, m) ==
  IF m = 2 THEN (IF IsLeap(y) THEN 29 ELSE 28)
  ELSE IF m \in {4, 6, 9, 11} THEN 30 ELSE 31

\* the calendar day before d
DayBefore(d) ==
  IF d.day > 1 THEN [d EXCEPT !.day = d.day - 1]
  ELSE IF d.month > 1
  THEN [d EXCEPT !.month = d.month - 1, !.day = DaysInMonth(d.year, d.month - 1)]
  ELSE [year |-> d.year - 1, month |-> 12, day |-> 31]

\* the calendar day after d
DayAfter(d) ==
  IF d.day < DaysInMonth(d.year, d.month) THEN [d EXCEPT !.day = d.day + 1]
  ELSE IF d.month < 12 THEN [d EXCEPT !.month = d.month + 1, !.day = 1]
  ELSE [year |-> d.year + 1, month |-> 1, day |-> 1]

\* pi * n / d, rounded once
PiFraction(n, d) ==
  LET P == (Pi \div 1000) * n
  IN  (P \div d) * 1000 + RDiv[(P % d) * 1000 + (Pi % 1000) * n, d]

\* the azimuth is defined: saz returned a number
AzimuthDefined == fn = "saz" /\ ret.value # NaN

\* the fractional year g of timestamp dt lies between that of Jan 1, hour 0 and
\* that of day 366, hour 23, below 0 exactly on Jan 1 before 12:00 and at or
\* above 2 pi exactly on day 366 from 12:00 on
GammaRange(g, dt) ==
  /\ g >= -RDiv[Pi, 365]
  /\ g <= 2 * Pi + RDiv[22 * Pi, 24 * 365]
  /\ g < 0 <=> (dayofyear(dt) = 1 /\ hour(dt) < 12)
  /\ g >= 2 * Pi <=> (dayofyear(dt) = 366 /\ hour(dt) >= 12)

-----------------------------------------------------------------------------
(* The properties *)

\* C1: in the morning (hour angle < 0) saz returns the unsigned azimuth raw
\* itself, which lies in the eastern half [0, pi]; in the afternoon (hour
\* angle >= 0) it returns 2 pi - raw.
C1_MorningAzimuthIsRaw ==
  AzimuthDefined =>
    /\ ret.hour_angle < 0 => (ret.value = ret.raw /\ 0 <= ret.value /\ ret.value <= Pi)
    /\ ret.hour_angle >= 0 => ret.value = 2 * Pi - ret.raw

\* C2: true_solar_time returns the timestamp shifted by the offset
\* equationOfTime + 4 * longitude - 60 * (round(longitude / 15) + 1) minutes,
\* round being a nearest integer: the time of day is that of the input plus
\* the offset modulo one day, and the calendar date is the day before or after
\* exactly when the sum leaves the day at that end.
C2_TrueSolarTimeShift ==
  fn = "true_solar_time" =>
    LET off == Timedelta(ret.time_offset)
        sum == (datetime_object % 86400) + off
    IN  /\ \E k \in -13..13 :
             /\ 2 * Abs(longitude - 15 * Scale * k) <= 15 * Scale
             /\ ret.time_offset =
                  equation_of_time(datetime_object) + 4 * longitude
                    - 60 * Scale * (k + 1)
        /\ ret.value % 86400 = sum % 86400
        /\ date(ret.value) =
             IF sum < 0 THEN DayBefore(date(datetime_object))
             ELSE IF sum >= 86400 THEN DayAfter(date(datetime_object))
             ELSE date(datetime_object)

\* C2's case: a shift across midnight that carries into the year
C2_Witness ==
  /\ fn = "true_solar_time"
  /\ year(ret.value) = year(datetime_object) - 1

C4_AzimuthBelowTwoPi ==
  AzimuthDefined => (0 <= ret.value /\ ret.value < 2 * Pi)

\* C5: when sin(zenith angle) = 0, saz returns the azimuth-undefined sentinel
\* without dividing by it: no division by zero is performed.
C5_NoDivisionAtZenith ==
  (fn = "saz" /\ ret.den = 0) =>
    (ret.value = NaN /\ ret.warnings = {})

\* C6: a latitude beyond +-90 degrees is rejected: no SolarGeometry object is
\* constructed with one, and neither sza nor saz returns a result for one.
C6_InvalidLatitudeRejected ==
  /\ event.constructed => Abs(event.latitude) <= 90 * Scale
  /\ fn \in {"sza", "saz"} => Abs(latitude) <= 90 * Scale

\* C7: fractional_year is 0 on Jan 1 at hour 12, is
\* 2 pi (dayOfYear - 1 + (hour - 12) / 24) / 365, and within one calendar year
\* it does not decrease: the value for a timestamp is at least the one the
\* SolarGeometry object of an earlier timestamp of that year holds.
C7_FractionalYearMonotone ==
  fn = "fractional_year" =>
    /\ (dayofyear(datetime_object) = 1 /\ hour(datetime_object) = 12)
         => ret.value = 0
    /\ Abs(ret.value
            - PiFraction(2 * (24 * (dayofyear(datetime_object) - 1)
                                + hour(datetime_object) - 12), 24 * 365)) <= 1
    /\ (/\ event.constructed
        /\ year(event.datetime_object) = year(datetime_object)
        /\ event.datetime_object <= datetime_object)
         => event.fractional_year <= ret.value

\* C7's case: a later timestamp of the same year, with a larger value
C7_Witness ==
  /\ fn = "fractional_year"
  /\ event.constructed
  /\ year(event.datetime_object) = year(datetime_object)
  /\ event.datetime_object < datetime_object
  /\ event.fractional_year < ret.value

\* C8: the argument sza passes to arccos lies in [-1, 1], so that the zenith
\* angle is a number in [0, pi].
C8_ZenithCosineInRange ==
  fn = "sza" =>
    /\ -Scale <= ret.cos /\ ret.cos <= Scale
    /\ ret.value # NaN
    /\ 0 <= ret.value /\ ret.value <= Pi

\* C10 as stated: the angle fractional_year passes to declination and
\* equation_of_time lies in [0, 2 pi).
C10_GammaInDomain ==
  /\ fn \in {"declination", "equation_of_time"}
       => (0 <= ret.fractional_year /\ ret.fractional_year < 2 * Pi)
  /\ event.constructed
       => (0 <= event.fractional_year /\ event.fractional_year < 2 * Pi)

\* C10, amended: the angle fractional_year passes to declination and
\* equation_of_time lies in [-pi / 365, 2 pi + 2 pi (11 / 24) / 365]; it is
\* below 0 exactly on Jan 1 before 12:00 and at or above 2 pi exactly on day
\* 366 from 12:00 on, and lies in [0, 2 pi) otherwise.
C10_GammaRange ==
  /\ fn \in {"declination", "equation_of_time"}
       => GammaRange(ret.fractional_year, datetime_object)
  /\ event.constructed
       => GammaRange(event.fractional_year, event.datetime_object)

\* C10's case: declination is passed a negative angle, on Jan 1 before 12:00
C10_Witness ==
  /\ fn = "declination"
  /\ dayofyear(datetime_object) = 1
  /\ ret.fractional_year < 0

====
